---- MODULE Spec2Model ----
(***************************************************************************)
(* Model of the BAS-document validation and auto-correction code:          *)
(*   XMLValidator            src/modules/validator.py                      *)
(*   XMLProcessor            src/modules/mod_xml.py                        *)
(*   fix_xml_errors          src/c.py                                      *)
(*   DatabaseManager         src/modules/database.py                       *)
(*   XMLGenerator            src/modules/xml_generator.py                  *)
(* A file is what the validator is handed: its existence, size, text       *)
(* well-formedness and, when it parses, the element tree ElementTree       *)
(* builds from it.  The validator is a function of the file; the actions   *)
(* of the first specification edit the file and run validate_xml_file.     *)
(***************************************************************************)
EXTENDS Integers, Sequences, FiniteSets, TLC

VARIABLES file, verdict, edits, xml, original, passes,
          db0, db, connection, log

vars == <<file, verdict, edits, xml, original, passes, db0, db, connection, log>>

-----------------------------------------------------------------------------
(* Bounds of the model *)

\* number of edits the document producer makes to a base file
MaxEdits == 2
\* number of tokens of a text handed to a corrector
MaxTokens == 3
\* number of corrector runs on one text
MaxPasses == 2
\* number of calls made to one DatabaseManager
MaxCalls == 4

(* Program constants *)

\* validation_rules["min_file_size_mb"], validation_rules["max_file_size_mb"]
MinFileSizeMb == 500
MaxFileSizeMb == 2000
\* expected_count in _validate_features
ExpectedFeatureCount == 7170
\* limits of _validate_performance
MaxTotalElements == 1000000
MaxDepth == 20
MaxTextLength == 100000

-----------------------------------------------------------------------------
(* Values *)

\* Python's None; "<" cannot occur in an attribute value or a tag
None == "<None>"

\* Python truthiness of an attribute value: neither None nor ""
Truthy(v) == v # None /\ v # ""

RootTag == "BrowserAutomationStudioProject"

\* validation_rules["required_elements"]
RequiredElements ==
  << "BrowserAutomationStudioProject", "Script", "Settings", "Variables",
     "Features", "UserInterface", "Actions", "Macros", "Resources", "Log" >>

\* validation_rules["required_attributes"]
RequiredAttributes ==
  [ BrowserAutomationStudioProject |-> <<"xmlns", "version">>,
    Feature   |-> <<"id", "name", "category", "enabled", "visible">>,
    UIElement |-> <<"id", "type", "name", "visible", "enabled">>,
    Action    |-> <<"id", "name", "type">>,
    Macro     |-> <<"id", "name", "enabled">> ]

\* validation_rules["namespace"]
Namespace == "http://bablosoft.com/BrowserAutomationStudio"

\* validation_rules["feature_categories"]: three of the 26 names, the Korean
\* part of each written in English (YouTube_..., logging, database)
FeatureCategories == {"YouTube_automation", "logging", "database"}

\* validation_rules["ui_types"]
UiTypes == {"button", "toggle", "input", "select", "checkbox",
            "radio", "slider", "textarea", "label", "panel"}

\* validation_rules["action_types"]
ActionTypes == {"Navigate", "Click", "Type", "Wait", "Scroll", "Submit",
                "Extract", "Screenshot", "Upload", "Download", "Login",
                "SolveCaptcha", "ProxyRotate", "MonitorSystem"}

Digits == {"0", "1", "2", "3", "4", "5", "6", "7", "8", "9"}

-----------------------------------------------------------------------------
(* Sequence helpers *)

Indices(n) == [k \in 1..n |-> k]

RECURSIVE Flatten(_)
Flatten(ss) == IF ss = <<>> THEN <<>> ELSE Head(ss) \o Flatten(Tail(ss))

Range(s) == {s[k] : k \in 1..Len(s)}

MapSeq(Op(_), s) == [k \in 1..Len(s) |-> Op(s[k])]

-----------------------------------------------------------------------------
(* Element trees, as xml.etree.ElementTree presents them.                  *)
(* A tree is a sequence of elements; element 1 is the root, and every      *)
(* other element names its parent, which comes before it.  Siblings are in *)
(* document order.  An element is [tag, parent, attrs, text]: attrs is a   *)
(* function from the attribute names present to their values, text is the  *)
(* element's text or None.  A parsed tag is <<namespace, local name>>: the *)
(* string ElementTree gives is the local name when the namespace is None   *)
(* and "{namespace}local" otherwise.                                       *)

\* the tag string `name`, as a parsed tag
Plain(name) == <<None, name>>

\* element.get(a)
Get(e, a) == IF a \in DOMAIN e.attrs THEN e.attrs[a] ELSE None

\* list(element): the direct children of element i, in document order
Children(nodes, i) == SelectSeq(Indices(Len(nodes)), LAMBDA j : nodes[j].parent = i)

\* element.iter(): element i and its descendants, in document order
RECURSIVE Iter(_, _)
Iter(nodes, i) ==
  <<i>> \o Flatten(MapSeq(LAMBDA j : Iter(nodes, j), Children(nodes, i)))

\* element.findall(tag): the direct children of i with that tag
FindAll(nodes, i, tag) ==
  SelectSeq(Children(nodes, i), LAMBDA j : nodes[j].tag = Plain(tag))

\* element.find(tag): the first direct child with that tag, 0 for None
Find(nodes, i, tag) ==
  LET found == FindAll(nodes, i, tag) IN IF found = <<>> THEN 0 ELSE Head(found)

\* root.findall(".//tag"): every descendant of the root with that tag
FindAllDeep(nodes, tag) ==
  SelectSeq(Tail(Iter(nodes, 1)), LAMBDA j : nodes[j].tag = Plain(tag))

-----------------------------------------------------------------------------
(* Element texts.  The checks read a text through str.strip/startswith,    *)
(* json.loads, two regular expressions and len; each text the model uses   *)
(* is listed here with what those give for it.                             *)

TextPlain   == "plain text"
TextJson    == "{\"a\": 1}"
TextBadJson == "{bad"
TextBadArr  == "[bad"
TextPwd     == "password=hunter2"
TextDeep    == "{\"a\": [[[[ ... nested 200000 deep"
TextBig     == "x ... 100001 characters"

Texts == {TextPlain, TextJson, TextBadJson, TextBadArr, TextPwd, TextDeep, TextBig}

\* elem.text.strip().startswith('{')
StartsWithBrace(t) == t \in {TextJson, TextBadJson, TextDeep}

\* json.loads(t): the type of the value, or the exception raised.  Nesting
\* deeper than the interpreter's recursion limit raises RecursionError,
\* which is not a JSONDecodeError.
JsonLoads(t) ==
  CASE t = TextJson -> "dict"
    [] t = TextDeep -> "RecursionError"
    [] OTHER        -> "JSONDecodeError"

\* password_pattern.findall(t) is not empty
PasswordMatch(t) == t = TextPwd

\* api_key_pattern.search(t): a run of 32 or more letters and digits
ApiKeyMatch(t) == t = TextBig

\* len(t)
TextLen(t) ==
  CASE t = TextDeep -> 200007
    [] t = TextBig  -> 100001
    [] t = TextPlain -> 10
    [] t = TextJson -> 8
    [] t = TextPwd  -> 16
    [] OTHER        -> 4

\* any(keyword in tag.lower() for keyword in ['key', 'token', 'secret'])
KeyLikeTag(tag) == tag[2] \in {"ApiKey"}

\* 'password' in attr_name.lower()
PasswordLikeAttr(a) == a \in {"password"}

\* len(attr_value)
AttrLen(v) ==
  CASE v = "hunter2secret" -> 13
    [] v = "" -> 0
    [] OTHER -> 5

-----------------------------------------------------------------------------
(* Findings.  An error or a warning is the tuple of a name for the message *)
(* and the values the message is formatted with, so that two findings are  *)
(* equal exactly when the two message strings are.                         *)

\* the message names of a list of findings
Kinds(findings) == {findings[k][1] : k \in 1..Len(findings)}

Result(valid, errors, warnings) ==
  [valid |-> valid, errors |-> errors, warnings |-> warnings]

\* re.match(version_pattern, v) with version_pattern ^\d+\.\d+\.\d+$ ; v is a
\* sequence of characters.  "$" also matches before a final newline.
RECURSIVE SkipDigits(_, _)
SkipDigits(v, p) ==
  IF p <= Len(v) /\ v[p] \in Digits THEN SkipDigits(v, p + 1) ELSE p

\* VersionMatches with the third part forgotten: major.minor is accepted
VersionMatchesTwoParts(v) ==
  LET p1 == SkipDigits(v, 1)
      p2 == SkipDigits(v, p1 + 1)
  IN  /\ p1 > 1 /\ p1 <= Len(v) /\ v[p1] = "."
      /\ p2 > p1 + 1
      /\ p2 = Len(v) + 1

VersionMatches(v) ==
  LET p1 == SkipDigits(v, 1)
      p2 == SkipDigits(v, p1 + 1)
      p3 == SkipDigits(v, p2 + 1)
  IN  /\ p1 > 1 /\ p1 <= Len(v) /\ v[p1] = "."
      /\ p2 > p1 + 1 /\ p2 <= Len(v) /\ v[p2] = "."
      /\ p3 > p2 + 1
      /\ \/ p3 = Len(v) + 1
         \/ p3 = Len(v) /\ v[p3] = "\n"

-----------------------------------------------------------------------------
(* XMLValidator._validate_file_basic *)

\* ValidateFileBasic without the return after the size error
ValidateFileBasicNoReturn(f) ==
  IF ~f.exists
    THEN Result(FALSE, << <<"file_missing">> >>, <<>>)
  ELSE Result(TRUE,
         IF f.sizeMb > MaxFileSizeMb
           THEN << <<"file_too_large", MaxFileSizeMb, f.sizeMb>> >> ELSE <<>>,
         (IF f.sizeMb < MinFileSizeMb
            THEN << <<"file_below_min", MinFileSizeMb, f.sizeMb>> >> ELSE <<>>)
         \o (IF ~f.suffixXml THEN << <<"suffix_not_xml">> >> ELSE <<>>))

ValidateFileBasic(f) ==
  IF ~f.exists
    THEN Result(FALSE, << <<"file_missing">> >>, <<>>)
  ELSE IF f.sizeMb > MaxFileSizeMb
    THEN Result(FALSE, << <<"file_too_large", MaxFileSizeMb, f.sizeMb>> >>, <<>>)
  ELSE Result(TRUE, <<>>,
         (IF f.sizeMb < MinFileSizeMb
            THEN << <<"file_below_min", MinFileSizeMb, f.sizeMb>> >> ELSE <<>>)
         \o (IF ~f.suffixXml THEN << <<"suffix_not_xml">> >> ELSE <<>>))

(* XMLValidator._validate_xml_syntax: ET.parse, the encoding declaration of *)
(* the first line, minidom.parse.                                           *)

\* what ET.parse(...).getroot() gives: the elements, and the root's version
\* attribute (a sequence of characters) when it has one
ParsedTree(f) == [nodes |-> f.nodes, version |-> f.version]

\* ValidateXmlSyntax without the ParseError branch
ValidateXmlSyntaxNoParseError(f) ==
  [valid |-> TRUE, errors |-> <<>>,
   warnings |-> IF f.declUtf8 THEN <<>> ELSE << <<"no_utf8_declaration">> >>,
   root |-> ParsedTree(f)]

ValidateXmlSyntax(f) ==
  IF ~f.wellFormed
    THEN [valid |-> FALSE, errors |-> << <<"xml_parse_error">> >>,
          warnings |-> <<>>, root |-> <<>>]
    ELSE [valid |-> TRUE, errors |-> <<>>,
          warnings |-> IF f.declUtf8 THEN <<>> ELSE << <<"no_utf8_declaration">> >>,
          root |-> ParsedTree(f)]

-----------------------------------------------------------------------------
(* XMLValidator._validate_features: the loop over features_elem.findall    *)
(* ("Feature"), with feature_count, feature_ids and the result so far.     *)

MissingAttrs(e, required) == SelectSeq(required, LAMBDA a : ~Truthy(Get(e, a)))

\* FeatureFindings with an unknown category filed as an error
FeatureFindingsCategoryError(e) ==
  [errors |->
     MapSeq(LAMBDA a : <<"feature_attr_missing", Get(e, "id"), a>>,
            MissingAttrs(e, RequiredAttributes.Feature))
     \o (IF Truthy(Get(e, "category")) /\ Get(e, "category") \notin FeatureCategories
           THEN << <<"feature_unknown_category", Get(e, "id"), Get(e, "category")>> >>
           ELSE <<>>),
   warnings |->
     IF Truthy(Get(e, "visible")) /\ Get(e, "visible") # "true"
       THEN << <<"feature_not_visible", Get(e, "id"), Get(e, "visible")>> >>
       ELSE <<>>]

FeatureFindings(e) ==
  [errors |->
     MapSeq(LAMBDA a : <<"feature_attr_missing", Get(e, "id"), a>>,
            MissingAttrs(e, RequiredAttributes.Feature)),
   warnings |->
     (IF Truthy(Get(e, "category")) /\ Get(e, "category") \notin FeatureCategories
        THEN << <<"feature_unknown_category", Get(e, "id"), Get(e, "category")>> >>
        ELSE <<>>)
     \o (IF Truthy(Get(e, "visible")) /\ Get(e, "visible") # "true"
           THEN << <<"feature_not_visible", Get(e, "id"), Get(e, "visible")>> >>
           ELSE <<>>)]

RECURSIVE FeatureLoop(_, _, _, _, _)
FeatureLoop(nodes, todo, count, ids, res) ==
  IF todo = <<>>
    THEN [res EXCEPT !.warnings =
            @ \o (IF count < ExpectedFeatureCount
                    THEN << <<"feature_count_below_target", ExpectedFeatureCount, count>> >>
                    ELSE <<>>)]
  ELSE
    LET e  == nodes[Head(todo)]
        n  == count + 1
        id == Get(e, "id")
        fs == FeatureFindings(e)
    IN  IF ~Truthy(id)
          THEN FeatureLoop(nodes, Tail(todo), n, ids,
                 Result(FALSE, res.errors \o << <<"feature_id_missing", n>> >>,
                        res.warnings))
        ELSE
          LET dup == id \in ids IN
          FeatureLoop(nodes, Tail(todo), n, ids \cup {id},
            Result(res.valid /\ ~dup /\ fs.errors = <<>>,
                   res.errors
                     \o (IF dup THEN << <<"feature_id_duplicate", id>> >> ELSE <<>>)
                     \o fs.errors,
                   res.warnings \o fs.warnings))

\* ValidateFeatures with a count below the target filed as an error
ValidateFeaturesCountError(nodes, features_elem) ==
  LET res == FeatureLoop(nodes, FindAll(nodes, features_elem, "Feature"), 0, {},
                         Result(TRUE, <<>>, <<>>))
      low == SelectSeq(res.warnings, LAMBDA w : w[1] = "feature_count_below_target")
  IN  Result(res.valid /\ low = <<>>, res.errors \o low, res.warnings)

ValidateFeatures(nodes, features_elem) ==
  FeatureLoop(nodes, FindAll(nodes, features_elem, "Feature"), 0, {},
              Result(TRUE, <<>>, <<>>))

(* XMLValidator._validate_ui_elements *)

UiFindings(e) ==
  (IF Truthy(Get(e, "type")) /\ Get(e, "type") \notin UiTypes
     THEN << <<"ui_unknown_type", Get(e, "id"), Get(e, "type")>> >> ELSE <<>>)
  \o (IF Truthy(Get(e, "visible")) /\ Get(e, "visible") # "true"
        THEN << <<"ui_not_visible", Get(e, "id"), Get(e, "visible")>> >> ELSE <<>>)
  \o (IF Truthy(Get(e, "enabled")) /\ Get(e, "enabled") # "true"
        THEN << <<"ui_not_enabled", Get(e, "id"), Get(e, "enabled")>> >> ELSE <<>>)

RECURSIVE UiLoop(_, _, _, _, _)
UiLoop(nodes, todo, count, ids, res) ==
  IF todo = <<>> THEN res
  ELSE
    LET e  == nodes[Head(todo)]
        n  == count + 1
        id == Get(e, "id")
    IN  IF ~Truthy(id)
          THEN UiLoop(nodes, Tail(todo), n, ids,
                 Result(FALSE, res.errors \o << <<"ui_id_missing", n>> >>, res.warnings))
        ELSE
          LET dup == id \in ids IN
          UiLoop(nodes, Tail(todo), n, ids \cup {id},
            Result(res.valid /\ ~dup,
                   res.errors \o (IF dup THEN << <<"ui_id_duplicate", id>> >> ELSE <<>>),
                   res.warnings \o UiFindings(e)))

\* ValidateUiElements with valid cleared on an unknown type
ValidateUiElementsTypeInvalid(nodes, ui_elem) ==
  LET res == UiLoop(nodes, FindAll(nodes, ui_elem, "UIElement"), 0, {},
                    Result(TRUE, <<>>, <<>>))
  IN  [res EXCEPT !.valid = @ /\ "ui_unknown_type" \notin Kinds(res.warnings)]

ValidateUiElements(nodes, ui_elem) ==
  UiLoop(nodes, FindAll(nodes, ui_elem, "UIElement"), 0, {}, Result(TRUE, <<>>, <<>>))

(* XMLValidator._validate_actions *)

ActionFindings(e) ==
  IF Truthy(Get(e, "type")) /\ Get(e, "type") \notin ActionTypes
    THEN << <<"action_unknown_type", Get(e, "id"), Get(e, "type")>> >> ELSE <<>>

RECURSIVE ActionLoop(_, _, _, _, _)
ActionLoop(nodes, todo, count, ids, res) ==
  IF todo = <<>> THEN res
  ELSE
    LET e  == nodes[Head(todo)]
        n  == count + 1
        id == Get(e, "id")
    IN  IF ~Truthy(id)
          THEN ActionLoop(nodes, Tail(todo), n, ids,
                 Result(FALSE, res.errors \o << <<"action_id_missing", n>> >>, res.warnings))
        ELSE
          LET dup == id \in ids IN
          ActionLoop(nodes, Tail(todo), n, ids \cup {id},
            Result(res.valid /\ ~dup,
                   res.errors \o (IF dup THEN << <<"action_id_duplicate", id>> >> ELSE <<>>),
                   res.warnings \o ActionFindings(e)))

\* ValidateActions with valid cleared on an unknown type
ValidateActionsTypeInvalid(nodes, actions_elem) ==
  LET res == ActionLoop(nodes, FindAll(nodes, actions_elem, "Action"), 0, {},
                        Result(TRUE, <<>>, <<>>))
  IN  [res EXCEPT !.valid = @ /\ "action_unknown_type" \notin Kinds(res.warnings)]

ValidateActions(nodes, actions_elem) ==
  ActionLoop(nodes, FindAll(nodes, actions_elem, "Action"), 0, {}, Result(TRUE, <<>>, <<>>))

-----------------------------------------------------------------------------
(* XMLValidator._validate_bas_schema.  root.get("xmlns") is None for every *)
(* parsed tree: ElementTree turns a namespace declaration into the         *)
(* namespace of the tags, never into an attribute.                         *)

SectionCheck(nodes, tag, Check(_, _)) ==
  LET elem == Find(nodes, 1, tag)
  IN  IF elem = 0 THEN Result(TRUE, <<>>, <<>>) ELSE Check(nodes, elem)

ValidateBasSchema(root) ==
  LET nodes    == root.nodes
      rootErr  == IF nodes[1].tag # Plain(RootTag)
                    THEN << <<"root_tag_wrong", nodes[1].tag>> >> ELSE <<>>
      xmlns    == Get(nodes[1], "xmlns")
      nsWarn   == IF xmlns # Namespace
                    THEN << <<"namespace_differs", xmlns, Namespace>> >> ELSE <<>>
      verErr   == IF ~root.version.present \/ root.version.value = <<>>
                    THEN << <<"version_missing">> >>
                  ELSE IF ~VersionMatches(root.version.value)
                    THEN << <<"version_format", root.version.value>> >>
                  ELSE <<>>
      existing == {nodes[j].tag : j \in Range(Children(nodes, 1))}
      missing  == MapSeq(LAMBDA t : <<"required_element_missing", t>>,
                         SelectSeq(RequiredElements, LAMBDA t : Plain(t) \notin existing))
      fc       == SectionCheck(nodes, "Features", ValidateFeatures)
      uc       == SectionCheck(nodes, "UserInterface", ValidateUiElements)
      ac       == SectionCheck(nodes, "Actions", ValidateActions)
  IN  Result(rootErr = <<>> /\ verErr = <<>> /\ missing = <<>>
               /\ fc.valid /\ uc.valid /\ ac.valid,
             rootErr \o verErr \o missing \o fc.errors \o uc.errors \o ac.errors,
             nsWarn \o fc.warnings \o uc.warnings \o ac.warnings)

-----------------------------------------------------------------------------
(* XMLValidator._validate_data_integrity.  The body is one try block: an   *)
(* exception other than JSONDecodeError ends it where it is raised, keeps  *)
(* the warnings appended so far, appends an error and clears valid.        *)

HasText(e) == Truthy(e.text)

RECURSIVE JsonLoop(_, _, _)
JsonLoop(nodes, todo, warnings) ==
  IF todo = <<>> THEN [raised |-> FALSE, warnings |-> warnings]
  ELSE
    LET e == nodes[Head(todo)] IN
    IF HasText(e) /\ StartsWithBrace(e.text)
      THEN CASE JsonLoads(e.text) = "RecursionError" ->
                  [raised |-> TRUE, warnings |-> warnings]
             [] JsonLoads(e.text) = "JSONDecodeError" ->
                  JsonLoop(nodes, Tail(todo), warnings \o << <<"json_invalid", e.tag>> >>)
             [] OTHER -> JsonLoop(nodes, Tail(todo), warnings)
      ELSE JsonLoop(nodes, Tail(todo), warnings)

ConfigCheck(nodes) ==
  LET found == FindAllDeep(nodes, "Config")
      text  == IF found = <<>> THEN None ELSE nodes[Head(found)].text
  IN  IF ~Truthy(text) THEN [raised |-> FALSE, warnings |-> <<>>]
      ELSE CASE JsonLoads(text) = "RecursionError" -> [raised |-> TRUE, warnings |-> <<>>]
             [] JsonLoads(text) = "JSONDecodeError" ->
                  [raised |-> FALSE, warnings |-> << <<"config_json_invalid">> >>]
             [] JsonLoads(text) = "dict" -> [raised |-> FALSE, warnings |-> <<>>]
             [] OTHER -> [raised |-> FALSE, warnings |-> << <<"config_not_object">> >>]

ValidateDataIntegrity(root) ==
  LET nodes    == root.nodes
      features == {Get(nodes[j], "id") : j \in
                     {k \in Range(FindAllDeep(nodes, "Feature")) :
                        Truthy(Get(nodes[k], "id"))}}
      dangling == SelectSeq(FindAllDeep(nodes, "UIElement"),
                    LAMBDA j : /\ Truthy(Get(nodes[j], "feature_id"))
                               /\ Get(nodes[j], "feature_id") \notin features)
      refWarn  == MapSeq(LAMBDA j : <<"ui_dangling_feature", Get(nodes[j], "feature_id")>>,
                         dangling)
      json     == JsonLoop(nodes, Iter(nodes, 1), refWarn)
      config   == ConfigCheck(nodes)
  IN  IF json.raised
        THEN Result(FALSE, << <<"integrity_check_failed">> >>, json.warnings)
      ELSE IF config.raised
        THEN Result(FALSE, << <<"integrity_check_failed">> >>, json.warnings)
      ELSE Result(TRUE, <<>>, json.warnings \o config.warnings)

-----------------------------------------------------------------------------
(* XMLValidator._calculate_xml_depth and _validate_performance *)

Max(a, b) == IF a >= b THEN a ELSE b

RECURSIVE MaxOver(_)
MaxOver(s) == IF s = <<>> THEN 0 ELSE Max(Head(s), MaxOver(Tail(s)))

\* CalculateXmlDepth following the first child only
RECURSIVE CalculateXmlDepthFirstChild(_, _, _)
CalculateXmlDepthFirstChild(nodes, element, current_depth) ==
  IF Children(nodes, element) = <<>> THEN current_depth
  ELSE CalculateXmlDepthFirstChild(nodes, Head(Children(nodes, element)),
                                   current_depth + 1)

RECURSIVE CalculateXmlDepth(_, _, _)
CalculateXmlDepth(nodes, element, current_depth) ==
  IF Children(nodes, element) = <<>> THEN current_depth
  ELSE MaxOver(MapSeq(LAMBDA c : CalculateXmlDepth(nodes, c, current_depth + 1),
                      Children(nodes, element)))

ValidatePerformance(root) ==
  LET nodes == root.nodes
      all   == Iter(nodes, 1)
      depth == CalculateXmlDepth(nodes, 1, 0)
  IN  Result(TRUE, <<>>,
        (IF Len(all) > MaxTotalElements
           THEN << <<"too_many_elements", Len(all)>> >> ELSE <<>>)
        \o (IF depth > MaxDepth THEN << <<"too_deep", depth>> >> ELSE <<>>)
        \o MapSeq(LAMBDA j : <<"large_text", nodes[j].tag>>,
                  SelectSeq(all, LAMBDA j : /\ HasText(nodes[j])
                                            /\ TextLen(nodes[j].text) > MaxTextLength)))

(* XMLValidator._validate_security.  A model element has at most one       *)
(* attribute with a password-like name, so attribute order plays no part.  *)

SecurityOfElement(e) ==
  (IF HasText(e) /\ PasswordMatch(e.text)
     THEN << <<"plaintext_password", e.tag>> >> ELSE <<>>)
  \o (IF \E a \in DOMAIN e.attrs : PasswordLikeAttr(a) /\ AttrLen(e.attrs[a]) > 5
        THEN << <<"password_attribute", "password">> >> ELSE <<>>)

ValidateSecurity(root) ==
  LET nodes == root.nodes
      all   == Iter(nodes, 1)
  IN  Result(TRUE, <<>>,
        Flatten(MapSeq(LAMBDA j : SecurityOfElement(nodes[j]), all))
        \o MapSeq(LAMBDA j : <<"api_key", nodes[j].tag>>,
                  SelectSeq(all, LAMBDA j : /\ HasText(nodes[j])
                                            /\ ApiKeyMatch(nodes[j].text)
                                            /\ KeyLikeTag(nodes[j].tag))))

-----------------------------------------------------------------------------
(* XMLValidator.validate_xml_file.  The verdict is validation_result       *)
(* without file_path and validation_time; summary is the function from the *)
(* names of the checks that ran to their results.                          *)

Verdict(is_valid, errors, warnings, summary) ==
  [is_valid |-> is_valid, errors |-> errors, warnings |-> warnings,
   summary |-> summary]

\* extend(check[field]) under "if not check['valid']"
IfInvalid(check, field) == IF ~check.valid THEN check[field] ELSE <<>>

ValidateXmlFile(f) ==
  LET file_check == ValidateFileBasic(f) IN
  IF ~file_check.valid
    THEN Verdict(FALSE, file_check.errors, <<>>, [file_basic |-> file_check])
  ELSE
  LET xml_parse == ValidateXmlSyntax(f) IN
  IF ~xml_parse.valid
    THEN Verdict(FALSE, xml_parse.errors, <<>>,
                 [file_basic |-> file_check, xml_syntax |-> xml_parse])
  ELSE
  LET schema_check      == ValidateBasSchema(xml_parse.root)
      integrity_check   == ValidateDataIntegrity(xml_parse.root)
      performance_check == ValidatePerformance(xml_parse.root)
      security_check    == ValidateSecurity(xml_parse.root)
      errors   == IfInvalid(schema_check, "errors") \o IfInvalid(integrity_check, "errors")
      warnings == IfInvalid(schema_check, "warnings")
                  \o IfInvalid(integrity_check, "warnings")
                  \o performance_check.warnings \o security_check.warnings
  IN  Verdict(errors = <<>> /\ schema_check.valid /\ integrity_check.valid,
              errors, warnings,
              [file_basic |-> file_check, xml_syntax |-> xml_parse,
               bas_schema |-> schema_check, data_integrity |-> integrity_check,
               performance |-> performance_check, security |-> security_check])

-----------------------------------------------------------------------------
\* The correctors: XMLProcessor.fix_common_errors (src/modules/mod_xml.py)
\* and fix_xml_errors (src/c.py).  A text is a sequence of characters.

\* \s and \w of the re module, over the characters the model writes
WhiteSpace == {" ", "\t", "\n"}

WordChars ==
  {"a", "b", "c", "d", "e", "f", "g", "h", "i", "j", "k", "l", "m", "n", "o",
   "p", "q", "r", "s", "t", "u", "v", "w", "x", "y", "z",
   "A", "B", "C", "D", "E", "F", "G", "H", "I", "J", "K", "L", "M", "N", "O",
   "P", "Q", "R", "S", "T", "U", "V", "W", "X", "Y", "Z", "_"} \cup Digits

CdataOpen  == <<"<", "!", "[", "C", "D", "A", "T", "A", "[">>
CdataClose == <<"]", "]", ">">>

\* the text from position p on
From(s, p) == SubSeq(s, p, Len(s))

\* s[p:].startswith(t)
StartsWithAt(s, p, t) ==
  /\ p + Len(t) - 1 <= Len(s)
  /\ SubSeq(s, p, p + Len(t) - 1) = t

\* s.find(t, p), counting from 1: the first position from p on where t
\* starts, 0 when there is none
RECURSIVE FindFrom(_, _, _)
FindFrom(s, p, t) ==
  IF p + Len(t) - 1 > Len(s) THEN 0
  ELSE IF StartsWithAt(s, p, t) THEN p
  ELSE FindFrom(s, p + 1, t)

\* the end of the longest run of characters of the set C that starts at p:
\* the position after its last character (p when the run is empty)
RECURSIVE RunIn(_, _, _)
RunIn(s, p, C) ==
  IF p <= Len(s) /\ s[p] \in C THEN RunIn(s, p + 1, C) ELSE p

\* the same for the characters outside the set C
RECURSIVE RunNotIn(_, _, _)
RunNotIn(s, p, C) ==
  IF p <= Len(s) /\ s[p] \notin C THEN RunNotIn(s, p + 1, C) ELSE p

\* str.replace(old, new) on s[p:]: every occurrence, left to right
RECURSIVE ReplaceFrom(_, _, _, _)
ReplaceFrom(s, p, old, new) ==
  IF p > Len(s) THEN <<>>
  ELSE IF StartsWithAt(s, p, old) THEN new \o ReplaceFrom(s, p + Len(old), old, new)
  ELSE <<s[p]>> \o ReplaceFrom(s, p + 1, old, new)

Replace(s, old, new) == ReplaceFrom(s, 1, old, new)

\* str.strip()
RECURSIVE Strip(_)
Strip(s) ==
  IF s = <<>> THEN s
  ELSE IF Head(s) \in WhiteSpace THEN Strip(Tail(s))
  ELSE IF s[Len(s)] \in WhiteSpace THEN Strip(SubSeq(s, 1, Len(s) - 1))
  ELSE s

\* re.sub(r'(\w+)=([^"\s>]+)(?=\s|>)', r'\1="\2"', s), the first step of
\* both correctors.  A match at p is a run of word characters from p, "=",
\* and the longest non-empty run of characters other than a double quote,
\* white space and ">" that is followed by white space or ">": a shorter
\* name is not followed by "=", and a shorter value is followed by a
\* character of the value, so backtracking finds no other match.

\* the characters that end the value of [^"\s>]+
ValueEnd == WhiteSpace \cup {"\"", ">"}

\* the position after the match that starts at p, 0 when none starts there
QuoteMatchEnd(s, p) ==
  LET q == RunIn(s, p, WordChars)
      r == RunNotIn(s, q + 1, ValueEnd)
  IN  IF /\ q > p /\ q <= Len(s) /\ s[q] = "="
         /\ r > q + 1 /\ r <= Len(s) /\ s[r] \in WhiteSpace \cup {">"}
        THEN r ELSE 0

RECURSIVE QuoteFrom(_, _)
QuoteFrom(s, p) ==
  IF p > Len(s) THEN <<>>
  ELSE
    LET r == QuoteMatchEnd(s, p)
        q == RunIn(s, p, WordChars)
    IN  IF r = 0 THEN <<s[p]>> \o QuoteFrom(s, p + 1)
        ELSE SubSeq(s, p, q) \o <<"\"">> \o SubSeq(s, q + 1, r - 1) \o <<"\"">>
             \o QuoteFrom(s, r)

QuoteAttributes(s) == QuoteFrom(s, 1)

\* re.findall(r'<!\[CDATA\[(.*?)\]\]>', s, re.DOTALL): the payloads of the
\* CDATA sections, each from an opening marker to the first closing marker
\* after it, the search going on after that closing marker.

RECURSIVE CdataFrom(_, _)
CdataFrom(s, p) ==
  LET open  == FindFrom(s, p, CdataOpen)
      close == IF open = 0 THEN 0 ELSE FindFrom(s, open + Len(CdataOpen), CdataClose)
  IN  IF close = 0 THEN <<>>
      ELSE <<SubSeq(s, open + Len(CdataOpen), close - 1)>>
           \o CdataFrom(s, close + Len(CdataClose))

CdataSections(s) == CdataFrom(s, 1)

\* f'<![CDATA[{cdata}]]>'
CdataSection(cdata) == CdataOpen \o cdata \o CdataClose

\* f'__CDATA_{i}__', i counting from 0; the model has fewer than ten sections
Placeholder(i) ==
  <<"_", "_", "C", "D", "A", "T", "A", "_">>
  \o <<CHOOSE d \in Digits : \E k \in 1..10 :
         /\ <<"0", "1", "2", "3", "4", "5", "6", "7", "8", "9">>[k] = d
         /\ k = i + 1>>
  \o <<"_", "_">>

\* the loop "for i, cdata in enumerate(cdata_sections): temp_xml =
\* temp_xml.replace(section, placeholder)", from section k on
RECURSIVE Shield(_, _, _)
Shield(temp_xml, cdata_sections, k) ==
  IF k > Len(cdata_sections) THEN temp_xml
  ELSE Shield(Replace(temp_xml, CdataSection(cdata_sections[k]), Placeholder(k - 1)),
              cdata_sections, k + 1)

\* the loop that puts the sections back
RECURSIVE Restore(_, _, _)
Restore(temp_xml, cdata_sections, k) ==
  IF k > Len(cdata_sections) THEN temp_xml
  ELSE Restore(Replace(temp_xml, Placeholder(k - 1), CdataSection(cdata_sections[k])),
               cdata_sections, k + 1)

\* the replacements of both correctors, in the order they are applied
Entity(name) == <<"&">> \o name \o <<";">>

EscapeReserved(s) ==
  LET s1 == Replace(s,  <<"&">>,  Entity(<<"a", "m", "p">>))
      s2 == Replace(s1, <<"<">>,  Entity(<<"l", "t">>))
      s3 == Replace(s2, <<">">>,  Entity(<<"g", "t">>))
      s4 == Replace(s3, <<"\"">>, Entity(<<"q", "u", "o", "t">>))
  IN  Replace(s4, <<"'">>, Entity(<<"a", "p", "o", "s">>))

\* XMLProcessor.fix_common_errors: the text after each of its steps
FixCommonSteps(xml_string) ==
  LET quoted         == QuoteAttributes(xml_string)
      cdata_sections == CdataSections(quoted)
      shielded       == Shield(quoted, cdata_sections, 1)
      escaped        == EscapeReserved(shielded)
      restored       == Restore(escaped, cdata_sections, 1)
  IN  << [step |-> "quote",   text |-> quoted],
         [step |-> "shield",  text |-> shielded],
         [step |-> "escape",  text |-> escaped],
         [step |-> "restore", text |-> restored] >>

\* the text a corrector returns is the text after its last step
LastText(steps) == steps[Len(steps)].text

FixCommonErrors(xml_string) == LastText(FixCommonSteps(xml_string))

\* fix_xml_errors, step 2:
\* re.sub(r'<(\w+)([^>]*)>([^<]*)</(?!\1)', r'<\1\2>\3</\1>', s)
\* At "<" followed by a word character: group 2 runs to the first ">",
\* group 3 from there to the first "<", which must start "</".  Group 1 is
\* the longest prefix of the run of word characters that the text after
\* "</" does not start with; group 2 begins with the rest of the run.

\* the longest k in 1..n such that the text at `after` does not start with
\* the k characters from `name` on; 0 when there is none
RECURSIVE ClosureName(_, _, _, _)
ClosureName(s, name, n, after) ==
  IF n = 0 THEN 0
  ELSE IF ~StartsWithAt(s, after, SubSeq(s, name, name + n - 1)) THEN n
  ELSE ClosureName(s, name, n - 1, after)

\* <<k, h>>: a match at p with a group 1 of k characters and "</" at h;
\* <<0, 0>> when no match starts at p
ClosureMatch(s, p) ==
  LET q == RunIn(s, p + 1, WordChars)
      g == RunNotIn(s, q, {">"})
      h == RunNotIn(s, g + 1, {"<"})
  IN  IF /\ s[p] = "<" /\ q > p + 1
         /\ g <= Len(s)
         /\ StartsWithAt(s, h, <<"<", "/">>)
         /\ ClosureName(s, p + 1, q - p - 1, h + 2) > 0
        THEN <<ClosureName(s, p + 1, q - p - 1, h + 2), h>>
        ELSE <<0, 0>>

RECURSIVE CloseTagsFrom(_, _)
CloseTagsFrom(s, p) ==
  IF p > Len(s) THEN <<>>
  ELSE
    LET m == ClosureMatch(s, p) IN
    IF m[1] = 0 THEN <<s[p]>> \o CloseTagsFrom(s, p + 1)
    ELSE SubSeq(s, p, m[2] + 1) \o SubSeq(s, p + 1, p + m[1]) \o <<">">>
         \o CloseTagsFrom(s, m[2] + 2)

CloseTags(s) == CloseTagsFrom(s, 1)

\* fix_xml_errors, step 4: every CDATA payload stripped

RECURSIVE StripCdataFrom(_, _)
StripCdataFrom(s, p) ==
  LET open  == FindFrom(s, p, CdataOpen)
      close == IF open = 0 THEN 0 ELSE FindFrom(s, open + Len(CdataOpen), CdataClose)
  IN  IF close = 0 THEN From(s, p)
      ELSE SubSeq(s, p, open - 1)
           \o CdataSection(Strip(SubSeq(s, open + Len(CdataOpen), close - 1)))
           \o StripCdataFrom(s, close + Len(CdataClose))

StripCdata(s) == StripCdataFrom(s, 1)

\* fix_xml_errors, step 5: re.sub(r'<(\w+)([^>]*?)></\1>', r'<\1\2/>', s).
\* Group 2 ends at the first ">" after the name; group 1 is a prefix of
\* the run of word characters such that "</", that prefix and ">" follow.

RECURSIVE EmptyName(_, _, _, _)
EmptyName(s, name, n, after) ==
  IF n = 0 THEN 0
  ELSE IF StartsWithAt(s, after, <<"<", "/">> \o SubSeq(s, name, name + n - 1) \o <<">">>)
    THEN n
  ELSE EmptyName(s, name, n - 1, after)

RECURSIVE CollapseFrom(_, _)
CollapseFrom(s, p) ==
  IF p > Len(s) THEN <<>>
  ELSE
    LET q == RunIn(s, p + 1, WordChars)
        g == RunNotIn(s, q, {">"})
        k == IF s[p] = "<" /\ q > p + 1 /\ g <= Len(s)
               THEN EmptyName(s, p + 1, q - p - 1, g + 1) ELSE 0
    IN  IF k = 0 THEN <<s[p]>> \o CollapseFrom(s, p + 1)
        ELSE SubSeq(s, p, g - 1) \o <<"/", ">">> \o CollapseFrom(s, g + 4 + k)

CollapseEmpty(s) == CollapseFrom(s, 1)

\* len(re.findall(...)) of the quoting pattern, from position p on
RECURSIVE CountQuoteFrom(_, _)
CountQuoteFrom(s, p) ==
  IF p > Len(s) THEN 0
  ELSE IF QuoteMatchEnd(s, p) = 0 THEN CountQuoteFrom(s, p + 1)
  ELSE 1 + CountQuoteFrom(s, QuoteMatchEnd(s, p))

\* the estimates fix_xml_errors adds to its count after steps 2, 3, 4 and 5
ClosureEstimate  == 100
EscapeEstimate   == 200
CdataEstimate    == 50
CollapseEstimate == 100

\* fix_xml_errors: the text after each of its steps
FixXmlSteps(xml_string) ==
  LET quoted    == QuoteAttributes(xml_string)
      closed    == CloseTags(quoted)
      escaped   == EscapeReserved(closed)
      stripped  == StripCdata(escaped)
      collapsed == CollapseEmpty(stripped)
  IN  << [step |-> "quote",          text |-> quoted],
         [step |-> "close_tags",     text |-> closed],
         [step |-> "escape",         text |-> escaped],
         [step |-> "strip_cdata",    text |-> stripped],
         [step |-> "collapse_empty", text |-> collapsed] >>

\* fix_xml_errors returns the text only
FixXmlErrors(xml_string) == LastText(FixXmlSteps(xml_string))

\* the count fix_xml_errors logs: the matches of the quoting pattern left
\* after the quoting step, and the four estimates
Corrections(xml_string) ==
  CountQuoteFrom(QuoteAttributes(xml_string), 1)
  + ClosureEstimate + EscapeEstimate + CdataEstimate + CollapseEstimate

-----------------------------------------------------------------------------
(* DatabaseManager (src/modules/database.py) and the SQLite file behind it. *)
(* A database is [tables, features, accounts, sequence]: the tables that    *)
(* exist, the rows of features as [id, name, category], the user names of   *)
(* the rows of accounts, and the last id AUTOINCREMENT gave to a feature.   *)
(* A statement that violates a constraint, names a missing table or is run  *)
(* without a connection raises; it changes nothing.                         *)

\* the tables create_tables creates
TableNames ==
  {"features", "ui_elements", "actions", "macros", "xml_generations",
   "accounts", "system_logs", "settings"}

\* the user names of default_accounts, in the order they are inserted
DefaultAccounts ==
  <<"honggildong", "kimdong", "hgildong", "userbeta", "newgmailid", "alphauser">>

Database(tables, features, accounts, sequence) ==
  [tables |-> tables, features |-> features, accounts |-> accounts,
   sequence |-> sequence]

\* the file before anything was created in it
EmptyDatabase == Database({}, <<>>, <<>>, 0)

\* CREATE TABLE IF NOT EXISTS, for each of the eight tables
CreateTables(d) == [d EXCEPT !.tables = @ \cup TableNames]

\* insert_default_data without the look at the count
InsertDefaultDataUnchecked(d) ==
  IF "accounts" \notin d.tables THEN d
  ELSE [d EXCEPT !.accounts = @ \o DefaultAccounts]

\* insert_default_data: the default accounts are inserted when SELECT
\* COUNT(*) FROM accounts gives 0; an exception is logged and swallowed
InsertDefaultData(d) ==
  IF "accounts" \notin d.tables THEN d
  ELSE IF Len(d.accounts) = 0 THEN [d EXCEPT !.accounts = DefaultAccounts]
  ELSE d

\* initialize: connect, create_tables, insert_default_data
Initialized(d) == InsertDefaultData(CreateTables(d))

\* INSERT INTO features: name is NOT NULL UNIQUE, category is NOT NULL
FeatureInsertable(d, connected, name, category) ==
  /\ connected
  /\ "features" \in d.tables
  /\ name # None /\ category # None
  /\ \A k \in 1..Len(d.features) : d.features[k].name # name

\* insert_feature that commits the row without advancing the count: the row
\* replaces the last one
WithFeatureReplacing(d, name, category) ==
  [d EXCEPT !.features =
     IF @ = <<>> THEN <<[id |-> 1, name |-> name, category |-> category]>>
     ELSE [@ EXCEPT ![Len(@)] = [id |-> d.sequence + 1, name |-> name,
                                  category |-> category]],
            !.sequence = @ + 1]

\* the database after a successful insert_feature; the row gets the next id
WithFeature(d, name, category) ==
  [d EXCEPT !.features = Append(@, [id |-> d.sequence + 1, name |-> name,
                                     category |-> category]),
            !.sequence = @ + 1]

\* get_features_count: SELECT COUNT(*); fetch_one gives None when the query
\* raises, and the count is then 0
GetFeaturesCount(d, connected) ==
  IF connected /\ "features" \in d.tables THEN Len(d.features) ELSE 0

\* get_accounts_count
GetAccountsCount(d, connected) ==
  IF connected /\ "accounts" \in d.tables THEN Len(d.accounts) ELSE 0

\* INSERT INTO accounts (core.py add_account): username is NOT NULL UNIQUE,
\* password is NOT NULL
AccountInsertable(d, connected, username, password) ==
  /\ connected
  /\ "accounts" \in d.tables
  /\ username # None /\ password # None
  /\ \A k \in 1..Len(d.accounts) : d.accounts[k] # username

\* the specifications of the validator and of the correctors open no database
NoDatabaseUse ==
  /\ db0 = EmptyDatabase
  /\ db = EmptyDatabase
  /\ connection = FALSE
  /\ log = <<>>

-----------------------------------------------------------------------------
(* The files the validator is run on.  A file is                           *)
(*   exists, sizeMb, suffixXml     what Path(file_path) reports            *)
(*   wellFormed, declUtf8          whether the text parses, and whether    *)
(*                                 its first line declares utf-8           *)
(*   version                       the root's version attribute            *)
(*   nodes                         the elements, as ElementTree parses     *)
(*                                 them: a default namespace declared on   *)
(*                                 the root is the namespace of every tag  *)

Elem(ns, name, parent, attrs, text) ==
  [tag |-> <<ns, name>>, parent |-> parent, attrs |-> attrs, text |-> text]

\* the namespace and the local name of element i
NsOf(nodes, i) == nodes[i].tag[1]
NameOf(nodes, i) == nodes[i].tag[2]

NoAttrs == [a \in {} |-> ""]

Chars2931 == <<"2", "9", ".", "3", ".", "1">>

VersionIs(chars) == [present |-> TRUE, value |-> chars]
NoVersion == [present |-> FALSE, value |-> <<>>]

\* version attributes: absent, empty, well formed, two parts only, a final
\* newline, a leading letter
Versions ==
  { NoVersion, VersionIs(<<>>), VersionIs(Chars2931),
    VersionIs(<<"2", "9", ".", "3">>),
    VersionIs(Chars2931 \o <<"\n">>),
    VersionIs(<<"v">> \o Chars2931) }

\* the document generate_complete_xml builds, with no feature, UI element,
\* action or macro: the root and its nine sections
SectionsOf(tags) == [k \in 1..Len(tags) |-> Elem(None, tags[k], 1, NoAttrs, None)]

GeneratedNodes ==
  <<Elem(None, RootTag, 0, NoAttrs, None)>> \o SectionsOf(Tail(RequiredElements))

FeatureElem(ns, parent, id) ==
  Elem(ns, "Feature", parent,
       [a \in {"id", "name", "category", "enabled", "visible"} |->
          CASE a = "id" -> id [] a = "name" -> "n" [] a = "category" -> "logging"
            [] OTHER -> "true"],
       None)

UiElem(ns, parent, id) ==
  Elem(ns, "UIElement", parent,
       [a \in {"id", "type", "name", "visible", "enabled"} |->
          CASE a = "id" -> id [] a = "name" -> "n" [] a = "type" -> "button"
            [] OTHER -> "true"],
       None)

ActionElem(ns, parent, id) ==
  Elem(ns, "Action", parent,
       [a \in {"id", "name", "type"} |->
          CASE a = "id" -> id [] a = "name" -> "n" [] OTHER -> "Click"],
       None)

NewElem(ns, name, parent, id) ==
  CASE name = "Feature"   -> FeatureElem(ns, parent, id)
    [] name = "UIElement" -> UiElem(ns, parent, id)
    [] OTHER              -> ActionElem(ns, parent, id)

BaseFile(nodes) ==
  [exists |-> TRUE, sizeMb |-> 700, suffixXml |-> TRUE, wellFormed |-> TRUE,
   declUtf8 |-> TRUE, version |-> VersionIs(Chars2931),
   nodes |-> nodes]

\* the nine sections; the nine sections and a child with the root's own tag;
\* the latter with one feature, one UI element and one action
BaseFiles ==
  { BaseFile(GeneratedNodes),
    BaseFile(GeneratedNodes \o SectionsOf(<<RootTag>>)),
    BaseFile(GeneratedNodes \o SectionsOf(<<RootTag>>)
             \o <<FeatureElem(None, 5, "x1"), UiElem(None, 6, "x1"),
                  ActionElem(None, 7, "x1")>>) }

\* what the edits of the model choose from: the sections an edit adds or
\* drops, where it puts a new element, the texts, ids and sizes it writes
AddedSections == {RootTag, "Features", "Config", "ApiKey"}
DroppedSections == {"Script", "Features", "UserInterface", "Actions"}
ElementTags == {"Feature", "UIElement", "Action"}
Placements == {<<"Features", "Feature">>, <<"UserInterface", "Feature">>,
               <<"UserInterface", "UIElement">>, <<"Actions", "Action">>}
TextTags == {"Script", "Config", "ApiKey"}
Ids == {"x1", "x2"}
Sizes == {MinFileSizeMb - 1, MaxFileSizeMb, MaxFileSizeMb + 1}

\* the attribute values an edit can write; None removes the attribute
AttrEdits(name) ==
  ({"id"} \X (Ids \cup {None, ""}))
  \cup ({"name"} \X {None})
  \cup (CASE name = "Feature" ->
               ({"category"} \X {None, "unknown"}) \cup ({"visible"} \X {"false"})
               \cup ({"password"} \X {"hunter2secret"})
          [] name = "UIElement" ->
               ({"type"} \X {None, "unknown"}) \cup ({"feature_id"} \X Ids)
          [] OTHER -> {"type"} \X {None, "unknown"})

SetAttr(e, a, v) ==
  [e EXCEPT !.attrs =
     IF v = None
       THEN [x \in (DOMAIN @) \ {a} |-> @[x]]
       ELSE [x \in (DOMAIN @) \cup {a} |-> IF x = a THEN v ELSE @[x]]]

\* the tree with the childless element i removed
RemoveLeaf(nodes, i) ==
  [k \in 1..(Len(nodes) - 1) |->
     LET e == IF k < i THEN nodes[k] ELSE nodes[k + 1]
     IN  [e EXCEPT !.parent = IF @ > i THEN @ - 1 ELSE @]]

\* validation_result as validate_xml_file creates it
NoVerdict == Verdict(FALSE, <<>>, <<>>, <<>>)

-----------------------------------------------------------------------------
(* Actions of the first specification: the producer edits the file, the    *)
(* caller validates it.                                                    *)

Edit(f) ==
  /\ verdict = NoVerdict
  /\ edits < MaxEdits
  /\ f # file
  /\ file' = f
  /\ edits' = edits + 1
  /\ UNCHANGED <<verdict, xml, original, passes, db0, db, connection, log>>

\* a child written without a namespace of its own is in its parent's
AddSection ==
  \E name \in AddedSections :
    Edit([file EXCEPT !.nodes =
            Append(@, Elem(NsOf(@, 1), name, 1, NoAttrs, None))])

DropSection ==
  \E i \in 2..Len(file.nodes) :
    /\ NameOf(file.nodes, i) \in DroppedSections
    /\ Children(file.nodes, i) = <<>>
    /\ Edit([file EXCEPT !.nodes = RemoveLeaf(@, i)])

SetRootTag ==
  \E name \in {RootTag, "Project"} : Edit([file EXCEPT !.nodes[1].tag[2] = name])

SetVersion == \E v \in Versions : Edit([file EXCEPT !.version = v])

\* the root declares, or no longer declares, a default namespace
SetNamespace ==
  \E ns \in {None, Namespace} :
    Edit([file EXCEPT !.nodes = [k \in 1..Len(@) |-> [@[k] EXCEPT !.tag[1] = ns]]])

AddElement ==
  \E parent \in 2..Len(file.nodes), name \in ElementTags, id \in Ids :
    /\ <<NameOf(file.nodes, parent), name>> \in Placements
    /\ Edit([file EXCEPT !.nodes =
               Append(@, NewElem(NsOf(@, parent), name, parent, id))])

SetAttribute ==
  \E i \in 2..Len(file.nodes) :
    /\ NameOf(file.nodes, i) \in ElementTags
    /\ \E av \in AttrEdits(NameOf(file.nodes, i)) :
         Edit([file EXCEPT !.nodes[i] = SetAttr(@, av[1], av[2])])

SetText ==
  \E i \in 2..Len(file.nodes), t \in Texts \cup {None} :
    /\ NameOf(file.nodes, i) \in TextTags
    /\ Edit([file EXCEPT !.nodes[i].text = t])

RemoveFile == Edit([file EXCEPT !.exists = FALSE])

Resize == \E size \in Sizes : Edit([file EXCEPT !.sizeMb = size])

Corrupt == Edit([file EXCEPT !.wellFormed = FALSE])

Rename == Edit([file EXCEPT !.suffixXml = FALSE])

DropDeclaration == Edit([file EXCEPT !.declUtf8 = FALSE])

Validate ==
  /\ verdict = NoVerdict
  /\ verdict' = ValidateXmlFile(file)
  /\ UNCHANGED <<file, edits, xml, original, passes, db0, db, connection, log>>

Init ==
  /\ file \in BaseFiles
  /\ verdict = NoVerdict
  /\ edits = 0
  /\ xml = <<>>
  /\ original = <<>>
  /\ passes = <<>>
  /\ NoDatabaseUse

Next ==
  \/ AddSection \/ DropSection \/ SetRootTag \/ SetVersion \/ SetNamespace
  \/ AddElement \/ SetAttribute \/ SetText
  \/ RemoveFile \/ Resize \/ Corrupt \/ Rename \/ DropDeclaration
  \/ Validate

Spec == Init /\ [][Next]_vars

-----------------------------------------------------------------------------
(* The second specification: a text is handed to a corrector, and the      *)
(* text a corrector returns may be handed to a corrector again.            *)

\* the pieces the texts are written from
Tokens ==
  { <<"<", "x">>, <<"<", "/", "x", ">">>, <<"<", "y", ">">>,
    <<">">>, <<"/", ">">>, <<" ">>, <<"t">>,
    <<" ", "a", "=", "1">>, <<" ", "b", "=", "\"", "2", "\"">>,
    <<"&">>, <<"'">>,
    CdataOpen, CdataClose, Placeholder(0) }

\* the texts of at most n tokens
RECURSIVE TokenTexts(_)
TokenTexts(n) ==
  IF n = 0 THEN {<<>>}
  ELSE LET shorter == TokenTexts(n - 1)
       IN  shorter \cup {t \o k : t \in shorter, k \in Tokens}

\* <x a=1 b=2>
UnquotedElement ==
  <<"<", "x", " ", "a", "=", "1", " ", "b", "=", "2", ">">>

\* <Feature id=f1 enabled=true/>
UnquotedSelfClosing ==
  <<"<", "F", "e", "a", "t", "u", "r", "e", " ", "i", "d", "=", "f", "1", " ",
    "e", "n", "a", "b", "l", "e", "d", "=", "t", "r", "u", "e", "/", ">">>

\* <![CDATA[ a=1 ]]>
CdataWithToken == CdataSection(<<" ", "a", "=", "1", " ">>)

\* <x><y/></x>
SelfClosingChild ==
  <<"<", "x", ">", "<", "y", "/", ">", "<", "/", "x", ">">>

\* <x a="1"></x>
EmptyPair ==
  <<"<", "x", " ", "a", "=", "\"", "1", "\"", ">", "<", "/", "x", ">">>

ScenarioTexts ==
  {UnquotedElement, UnquotedSelfClosing, CdataWithToken, SelfClosingChild,
   EmptyPair}

RawTexts == TokenTexts(MaxTokens) \cup ScenarioTexts

\* what one run of a corrector is remembered by
Pass(by, input, steps, corrections) ==
  [by |-> by, input |-> input, steps |-> steps, output |-> LastText(steps),
   corrections |-> corrections]

Correct(pass) ==
  /\ Len(passes) < MaxPasses
  /\ xml' = pass.output
  /\ passes' = Append(passes, pass)
  /\ UNCHANGED <<file, verdict, edits, original, db0, db, connection, log>>

\* XMLProcessor.fix_common_errors counts nothing
ApplyFixCommonErrors ==
  Correct(Pass("fix_common_errors", xml, FixCommonSteps(xml), None))

ApplyFixXmlErrors ==
  Correct(Pass("fix_xml_errors", xml, FixXmlSteps(xml), Corrections(xml)))

InitCorrector ==
  /\ file = BaseFile(GeneratedNodes)
  /\ verdict = NoVerdict
  /\ edits = 0
  /\ original \in RawTexts
  /\ xml = original
  /\ passes = <<>>
  /\ NoDatabaseUse

NextCorrector == ApplyFixCommonErrors \/ ApplyFixXmlErrors

SpecCorrector == InitCorrector /\ [][NextCorrector]_vars

-----------------------------------------------------------------------------
(* The third specification: a DatabaseManager on a database file.  Each    *)
(* call is written to the log with what it returned; a call that raised    *)
(* has ok = FALSE.                                                         *)

\* the database files a manager is opened on: none yet, the eight tables
\* with no row, a file with the features table only, a file written by an
\* earlier run, and a file whose accounts are not the default ones
InitialDatabases ==
  { EmptyDatabase,
    Database(TableNames, <<>>, <<>>, 0),
    Database({"features"}, <<[id |-> 1, name |-> "f1", category |-> "c"]>>, <<>>, 1),
    Database(TableNames, <<[id |-> 1, name |-> "f1", category |-> "c"]>>,
             DefaultAccounts, 1),
    Database(TableNames, <<>>, <<"zed">>, 0) }

\* what the calls of the model are given
FeatureNames == {"f1", "f2", "f3", None}
FeatureArgs == (FeatureNames \X {"c"}) \cup {<<"f1", None>>}
AccountArgs == {<<"honggildong", "pw">>, <<"zed", "pw">>, <<None, "pw">>}

Call(op, args, ok, result) ==
  [op |-> op, args |-> args, ok |-> ok, result |-> result,
   connected |-> connection]

Logged(call) ==
  /\ Len(log) < MaxCalls
  /\ log' = Append(log, call)
  /\ UNCHANGED <<file, verdict, edits, xml, original, passes, db0>>

Initialize ==
  /\ db' = Initialized(db)
  /\ connection' = TRUE
  /\ Logged(Call("initialize", <<>>, TRUE, None))

Disconnect ==
  /\ connection' = FALSE
  /\ UNCHANGED db
  /\ Logged(Call("disconnect", <<>>, TRUE, None))

\* insert_feature returns cursor.lastrowid, or raises what the INSERT raised
InsertFeature ==
  \E a \in FeatureArgs :
    /\ UNCHANGED connection
    /\ IF FeatureInsertable(db, connection, a[1], a[2])
         THEN /\ db' = WithFeature(db, a[1], a[2])
              /\ Logged(Call("insert_feature", a, TRUE, db.sequence + 1))
         ELSE /\ UNCHANGED db
              /\ Logged(Call("insert_feature", a, FALSE, None))

GetFeaturesCountCall ==
  /\ UNCHANGED <<db, connection>>
  /\ Logged(Call("get_features_count", <<>>, TRUE, GetFeaturesCount(db, connection)))

\* HDGRACESystem.add_account: True, or False when the INSERT raised
AddAccount ==
  \E a \in AccountArgs :
    /\ UNCHANGED connection
    /\ IF AccountInsertable(db, connection, a[1], a[2])
         THEN /\ db' = [db EXCEPT !.accounts = Append(@, a[1])]
              /\ Logged(Call("add_account", a, TRUE, TRUE))
         ELSE /\ UNCHANGED db
              /\ Logged(Call("add_account", a, TRUE, FALSE))

\* XMLGenerator._generate_features (src/modules/xml_generator.py): the names
\* are built from the category table and a counter, the same in every run.
\* The program's table gives 7170 names; the model keeps the first.
GeneratedFeatures == << <<"g1", "c">> >>

\* the loop over the names: each insert_feature call commits on its own, and
\* the first one that raises ends the run
RECURSIVE GenerateFeaturesLoop(_, _, _)
GenerateFeaturesLoop(d, todo, calls) ==
  IF todo = <<>> THEN [db |-> d, calls |-> calls, ok |-> TRUE]
  ELSE
    LET feature == Head(todo) IN
    IF FeatureInsertable(d, connection, feature[1], feature[2])
      THEN GenerateFeaturesLoop(WithFeature(d, feature[1], feature[2]), Tail(todo),
             Append(calls, Call("insert_feature", feature, TRUE, d.sequence + 1)))
      ELSE [db |-> d, ok |-> FALSE,
            calls |-> Append(calls, Call("insert_feature", feature, FALSE, None))]

\* one run; the log gets the insert_feature calls of the run, then the run
\* with the number of features it returned
GenerateFeatures ==
  LET run == GenerateFeaturesLoop(db, GeneratedFeatures, <<>>) IN
  /\ Len(log) < MaxCalls
  /\ db' = run.db
  /\ log' = log \o run.calls
             \o <<Call("generate_features", <<>>, run.ok,
                       IF run.ok THEN Len(GeneratedFeatures) ELSE None)>>
  /\ UNCHANGED <<connection, file, verdict, edits, xml, original, passes, db0>>

InitDatabase ==
  /\ file = BaseFile(GeneratedNodes)
  /\ verdict = NoVerdict
  /\ edits = 0
  /\ xml = <<>>
  /\ original = <<>>
  /\ passes = <<>>
  /\ db0 \in InitialDatabases
  /\ db = db0
  /\ connection = FALSE
  /\ log = <<>>

NextDatabase ==
  \/ Initialize \/ Disconnect \/ InsertFeature \/ GetFeaturesCountCall
  \/ AddAccount \/ GenerateFeatures

SpecDatabase == InitDatabase /\ [][NextDatabase]_vars

-----------------------------------------------------------------------------
(* Properties of validate_xml_file.  In every state with a verdict, the    *)
(* verdict is the one of the file of that state.                           *)

AllChecks == {"file_basic", "xml_syntax", "bas_schema", "data_integrity",
              "performance", "security"}

Validated == verdict # NoVerdict

\* validate_xml_file ran every check
FullRun == Validated /\ DOMAIN verdict.summary = AllChecks

\* the file passes the file-level check and parses
ReachesSchema(f) == f.exists /\ f.sizeMb <= MaxFileSizeMb /\ f.wellFormed

CountOf(findings, x) == Cardinality({k \in 1..Len(findings) : findings[k] = x})

RootChildTags(f) == {f.nodes[j].tag : j \in Range(Children(f.nodes, 1))}

ElementErrorKinds ==
  {"feature_id_missing", "feature_id_duplicate", "feature_attr_missing",
   "ui_id_missing", "ui_id_duplicate", "action_id_missing", "action_id_duplicate"}

WellFormedVersions == {VersionIs(Chars2931)}
MalformedVersions == {VersionIs(<<"2", "9", ".", "3">>), VersionIs(<<"v">> \o Chars2931)}
MissingVersions == {NoVersion, VersionIs(<<>>)}

\* C1: when validate_xml_file runs all checks to the end, is_valid is true
\* exactly when the errors list is empty, the root has the project tag, the
\* root has a well-formed version, every required element is among the
\* root's children, and the per-element scans recorded no missing id,
\* duplicate id or missing required attribute.
C1_VerdictRule ==
  FullRun =>
    (verdict.is_valid <=>
       /\ verdict.errors = <<>>
       /\ file.nodes[1].tag = Plain(RootTag)
       /\ file.version \in WellFormedVersions \cup {VersionIs(Chars2931 \o <<"\n">>)}
       /\ \A t \in Range(RequiredElements) : Plain(t) \in RootChildTags(file)
       /\ Kinds(verdict.summary.bas_schema.errors) \cap ElementErrorKinds = {})

C1_Witness ==
  /\ FullRun /\ verdict.is_valid
  /\ \E j \in 1..Len(file.nodes) : NameOf(file.nodes, j) = "Action"

\* the nine sections generate_complete_xml writes
Sections == Range(Tail(RequiredElements))

MinimalDocument(f) ==
  /\ ReachesSchema(f)
  /\ f.nodes[1].tag = Plain(RootTag)
  /\ f.version \in WellFormedVersions
  /\ \A t \in Sections : Plain(t) \in RootChildTags(f)
  /\ \A j \in 2..Len(f.nodes) :
       /\ f.nodes[j].parent = 1
       /\ NameOf(f.nodes, j) \in Sections
       /\ f.nodes[j].text = None

\* C2: a document with the project root tag, every required top-level
\* section present and empty, a well-formed version and no Feature,
\* UIElement or Action element validates: is_valid is true and errors is
\* empty.
C2_MinimalDocumentValid ==
  (Validated /\ MinimalDocument(file)) =>
    (verdict.is_valid /\ verdict.errors = <<>>)

\* An edit of the file that changes only what the specification files under
\* warnings: a vocabulary value (category or type, from one non-empty value
\* to another), a feature_id reference, a password-like attribute, an
\* element text (JSON that does not parse, a text over the length limit, a
\* credential pattern; not JSON nested beyond the recursion limit, which
\* json.loads answers with RecursionError), one more complete Feature with a
\* fresh id (the count against the target), or a size below the minimum.
AdvisoryTexts == (Texts \ {TextDeep}) \cup {None}

AdvisoryEdit(f, g) ==
  \/ \E i \in 2..Len(f.nodes), a \in {"category", "type"} :
       /\ Truthy(Get(f.nodes[i], a))
       /\ g = [f EXCEPT !.nodes[i] = SetAttr(@, a, "unknown")]
  \/ \E i \in 2..Len(f.nodes), id \in Ids :
       g = [f EXCEPT !.nodes[i] = SetAttr(@, "feature_id", id)]
  \/ \E i \in 2..Len(f.nodes) :
       g = [f EXCEPT !.nodes[i] = SetAttr(@, "password", "hunter2secret")]
  \/ \E i \in 2..Len(f.nodes), t \in AdvisoryTexts :
       /\ f.nodes[i].text \in AdvisoryTexts
       /\ g = [f EXCEPT !.nodes[i].text = t]
  \/ \E parent \in 2..Len(f.nodes), id \in Ids :
       /\ \A j \in 2..Len(f.nodes) : Get(f.nodes[j], "id") # id
       /\ g = [f EXCEPT !.nodes =
                 Append(@, FeatureElem(NsOf(@, parent), parent, id))]
  \/ /\ f.sizeMb \in MinFileSizeMb..MaxFileSizeMb
     /\ g = [f EXCEPT !.sizeMb = MinFileSizeMb - 1]

SectionOf(name) ==
  CASE name = "Feature"   -> "Features"
    [] name = "UIElement" -> "UserInterface"
    [] OTHER              -> "Actions"

\* the elements of one kind the scan reads: the children with that tag of
\* the first section of the root
Scanned(f, name) ==
  IF Find(f.nodes, 1, SectionOf(name)) = 0 THEN {}
  ELSE Range(FindAll(f.nodes, Find(f.nodes, 1, SectionOf(name)), name))

\* the scanned elements of one kind that share the id v
Sharing(f, name, v) == {j \in Scanned(f, name) : Get(f.nodes[j], "id") = v}

DuplicateKind(name) ==
  CASE name = "Feature"   -> "feature_id_duplicate"
    [] name = "UIElement" -> "ui_id_duplicate"
    [] OTHER              -> "action_id_duplicate"

\* C4: when two or more elements of the same tag (Feature, UIElement or
\* Action) of a section share an id, validation reports exactly one
\* duplicate-id error for that id, however many elements share it, and
\* is_valid is false.
C4_OneDuplicateError ==
  FullRun =>
    \A name \in ElementTags, v \in Ids :
      Cardinality(Sharing(file, name, v)) >= 2 =>
        /\ CountOf(verdict.errors, <<DuplicateKind(name), v>>) = 1
        /\ ~verdict.is_valid

VersionErrors == {<<"version_missing">>} \cup
                 {<<"version_format", v.value>> : v \in MalformedVersions}

WithoutVersionErrors(errors) == SelectSeq(errors, LAMBDA e : e \notin VersionErrors)

\* C5: removing the version attribute from the root of a document with a
\* well-formed version adds exactly one error, the one naming the version
\* field, and makes is_valid false; so does replacing it by a version that
\* does not match \d+.\d+.\d+ .
C5_VersionError ==
  (FullRun /\ file.version \in WellFormedVersions) =>
    /\ Kinds(verdict.errors) \cap {"version_missing", "version_format"} = {}
    /\ \A v \in MissingVersions \cup MalformedVersions :
         LET after == ValidateXmlFile([file EXCEPT !.version = v])
             named == IF v \in MissingVersions THEN <<"version_missing">>
                      ELSE <<"version_format", v.value>>
         IN  /\ ~after.is_valid
             /\ Len(after.errors) = Len(verdict.errors) + 1
             /\ CountOf(after.errors, named) = 1
             /\ WithoutVersionErrors(after.errors) = verdict.errors

C5_Witness ==
  /\ FullRun /\ ~file.version.present
  /\ CountOf(verdict.errors, <<"version_missing">>) = 1

\* the warnings for the elements the scans read whose vocabulary attribute
\* is set to a value outside the vocabulary
OutOfVocabulary(f) ==
  {<<"feature_unknown_category", Get(f.nodes[j], "id"), "unknown">> :
     j \in {k \in Scanned(f, "Feature") : Get(f.nodes[k], "category") = "unknown"}}
  \cup {<<"ui_unknown_type", Get(f.nodes[j], "id"), "unknown">> :
          j \in {k \in Scanned(f, "UIElement") : Get(f.nodes[k], "type") = "unknown"}}
  \cup {<<"action_unknown_type", Get(f.nodes[j], "id"), "unknown">> :
          j \in {k \in Scanned(f, "Action") : Get(f.nodes[k], "type") = "unknown"}}

\* C6: when a Feature category, UIElement type or Action type is outside its
\* vocabulary and the document has no hard error, the verdict holds a warning
\* for that element in its warnings list and is_valid is true.
C6_VocabularyWarningReported ==
  (FullRun /\ verdict.errors = <<>>) =>
    \A w \in OutOfVocabulary(file) :
      w \in Range(verdict.warnings) /\ verdict.is_valid

\* C7: a file larger than the configured maximum is rejected at once:
\* is_valid is false, there is exactly one error, and no check after the
\* file-level one has run.
C7_OversizedFile ==
  (Validated /\ file.exists /\ file.sizeMb > MaxFileSizeMb) =>
    /\ ~verdict.is_valid
    /\ Len(verdict.errors) = 1
    /\ verdict.errors[1][1] = "file_too_large"
    /\ DOMAIN verdict.summary = {"file_basic"}

C7_Witness == Validated /\ file.exists /\ file.sizeMb > MaxFileSizeMb

MissingSections(f) == {t \in Range(RequiredElements) : Plain(t) \notin RootChildTags(f)}

WithSection(f, t) == [f EXCEPT !.nodes = Append(@, Elem(None, t, 1, NoAttrs, None))]

\* C8: for a document lacking a required top-level section S, adding an
\* empty element with tag S as a direct child of the root removes the
\* "missing S" error, and every error of the new verdict was already in the
\* old one.
C8_ValidityMonotonicity ==
  (FullRun /\ ReachesSchema(file)) =>
    \A t \in MissingSections(file) :
      LET after == ValidateXmlFile(WithSection(file, t))
      IN  /\ <<"required_element_missing", t>> \in Range(verdict.errors)
          /\ <<"required_element_missing", t>> \notin Range(after.errors)
          /\ Range(after.errors) \subseteq Range(verdict.errors)

C8_Witness ==
  /\ FullRun
  /\ "Features" \in MissingSections(file)
  /\ <<"required_element_missing", "Features">> \in Range(verdict.errors)

-----------------------------------------------------------------------------
(* Properties of the correctors, under SpecCorrector. *)

\* C9: a corrector run on the text the same corrector returned returns that
\* text unchanged (correct(correct(x)) = correct(x)).
C9_Idempotent ==
  \A k \in 2..Len(passes) :
    passes[k].by = passes[k - 1].by => passes[k].output = passes[k - 1].output

\* the payloads of the CDATA sections of a text, white space at their two
\* boundaries aside
TrimmedPayloads(s) == MapSeq(Strip, CdataSections(s))

\* C10: the text a corrector returns has the CDATA sections of the text it
\* was handed, with the same payloads up to white space at their boundaries.
C10_CdataPreserved ==
  \A k \in 1..Len(passes) :
    TrimmedPayloads(passes[k].output) = TrimmedPayloads(passes[k].input)

\* the text t occurs in the text s
Contains(s, t) == FindFrom(s, 1, t) # 0

\* the passes that were handed the text x
PassesOn(x) == {k \in 1..Len(passes) : passes[k].input = x}

\* C11: a corrector handed <x a=1 b=2> returns a text that still holds the
\* element x as markup, with the attribute a equal to "1" and the attribute
\* b equal to "2".
C11_QuotingKeepsElement ==
  \A k \in PassesOn(UnquotedElement) :
    /\ Contains(passes[k].output, <<"<", "x">>)
    /\ Contains(passes[k].output, <<" ", "a", "=", "\"", "1", "\"">>)
    /\ Contains(passes[k].output, <<" ", "b", "=", "\"", "2", "\"">>)

\* <Feature id="f1" enabled="true"/>
QuotedSelfClosing ==
  <<"<", "F", "e", "a", "t", "u", "r", "e", " ", "i", "d", "=", "\"", "f", "1",
    "\"", " ", "e", "n", "a", "b", "l", "e", "d", "=", "\"", "t", "r", "u", "e",
    "\"", "/", ">">>

\* C12: the attribute-quoting step of a corrector handed
\* <Feature id=f1 enabled=true/> gives <Feature id="f1" enabled="true"/>:
\* both values quoted, the "/" of the self-closing tag outside the value.
C12_QuotingSelfClosing ==
  \A k \in PassesOn(UnquotedSelfClosing) :
    /\ passes[k].steps[1].step = "quote"
    /\ passes[k].steps[1].text = QuotedSelfClosing

\* Well-formed text, as the specification of the no-op describes it: character
\* data without a reserved character, entity references, CDATA sections,
\* and elements that are self-closed or closed by their own closing tag,
\* every attribute value in double quotes.  Each operator gives the position
\* after what it reads, 0 when the text is not well formed there.
Reserved == {"&", "<", ">", "\"", "'"}

\* the attributes of a start tag, from position p on
RECURSIVE AttributesEnd(_, _)
AttributesEnd(s, p) ==
  LET n == RunIn(s, p + 1, WordChars)
      v == RunNotIn(s, n + 2, {"\"", "<", "&"})
  IN  IF p > Len(s) \/ s[p] \notin WhiteSpace THEN p
      ELSE IF /\ n > p + 1
              /\ StartsWithAt(s, n, <<"=", "\"">>)
              /\ v <= Len(s) /\ s[v] = "\""
        THEN AttributesEnd(s, v + 1)
      ELSE 0

RECURSIVE ContentEnd(_, _)
RECURSIVE ElementEnd(_, _)

\* the element that starts at p
ElementEnd(s, p) ==
  LET n == RunIn(s, p + 1, WordChars)
      a == AttributesEnd(s, n)
      c == ContentEnd(s, a + 1)
      closing == <<"<", "/">> \o SubSeq(s, p + 1, n - 1) \o <<">">>
  IN  IF n = p + 1 \/ a = 0 THEN 0
      ELSE IF StartsWithAt(s, a, <<"/", ">">>) THEN a + 2
      ELSE IF a > Len(s) \/ s[a] # ">" \/ c = 0 THEN 0
      ELSE IF StartsWithAt(s, c, closing) THEN c + Len(closing)
      ELSE 0

\* the content from p on, up to a closing tag or the end of the text
ContentEnd(s, p) ==
  IF p > Len(s) \/ StartsWithAt(s, p, <<"<", "/">>) THEN p
  ELSE IF StartsWithAt(s, p, CdataOpen) THEN
    LET close == FindFrom(s, p + Len(CdataOpen), CdataClose)
    IN  IF close = 0 THEN 0 ELSE ContentEnd(s, close + Len(CdataClose))
  ELSE IF s[p] = "<" THEN
    LET e == ElementEnd(s, p) IN IF e = 0 THEN 0 ELSE ContentEnd(s, e)
  ELSE IF s[p] = "&" THEN
    LET n == RunIn(s, p + 1, WordChars)
    IN  IF n > p + 1 /\ n <= Len(s) /\ s[n] = ";" THEN ContentEnd(s, n + 1) ELSE 0
  ELSE IF s[p] \in Reserved THEN 0
  ELSE ContentEnd(s, p + 1)

WellFormedText(s) == ContentEnd(s, 1) = Len(s) + 1

\* C13: a corrector handed a text that is already well formed returns it
\* unchanged.
C13_NoOpOnWellFormed ==
  \A k \in 1..Len(passes) :
    WellFormedText(passes[k].input) => passes[k].output = passes[k].input

\* C14: fix_xml_errors handed the empty text returns the empty text and
\* counts no correction.
C14_EmptyInput ==
  \A k \in PassesOn(<<>>) :
    passes[k].by = "fix_xml_errors" =>
      /\ passes[k].output = <<>>
      /\ passes[k].corrections = 0

-----------------------------------------------------------------------------
(* Properties of DatabaseManager, under SpecDatabase. *)

\* the calls of the log from position i to position j that are successful
\* insert_feature calls
Inserted(i, j) ==
  {k \in i..j : log[k].op = "insert_feature" /\ log[k].ok}

\* the get_features_count calls of the log made on an open connection
Counted ==
  {k \in 1..Len(log) : log[k].op = "get_features_count" /\ log[k].connected}

\* C15: on an open connection get_features_count returns the count of the
\* database the manager started from plus the number of successful
\* insert_feature calls made since, their names pairwise distinct; between
\* two get_features_count calls the count grows by exactly the number of
\* successful insert_feature calls.
C15_CountTracksInsertions ==
  /\ connection =>
       GetFeaturesCount(db, connection)
         = GetFeaturesCount(Initialized(db0), TRUE)
           + Cardinality(Inserted(1, Len(log)))
  /\ \A i \in Counted, j \in Counted :
       i < j => log[j].result = log[i].result + Cardinality(Inserted(i, j))
  /\ \A i \in Inserted(1, Len(log)), j \in Inserted(1, Len(log)) :
       i # j => log[i].args[1] # log[j].args[1]

\* two insertions counted on a database that already held a feature
C15_Witness ==
  /\ connection
  /\ Len(db0.features) = 1
  /\ Cardinality(Inserted(1, Len(log))) = 2
  /\ GetFeaturesCount(db, connection) = 3

\* the initialize calls of the log
Initializations == {k \in 1..Len(log) : log[k].op = "initialize"}

\* the rows of accounts that carry the user name u
AccountsNamed(d, u) == {k \in 1..Len(d.accounts) : d.accounts[k] = u}

\* C16: after one or more initialize calls on a database whose accounts
\* table started empty, all eight tables exist and the accounts table holds
\* each default account exactly once.
C16_InitializeIdempotent ==
  (Len(db0.accounts) = 0 /\ Initializations # {}) =>
    /\ TableNames \subseteq db.tables
    /\ Len(db.accounts) > 0
    /\ \A i \in 1..Len(DefaultAccounts) :
         Cardinality(AccountsNamed(db, DefaultAccounts[i])) = 1

\* initialize called three times, an account added in between
C16_Witness ==
  /\ Len(db0.accounts) = 0
  /\ Cardinality(Initializations) = 3
  /\ Len(db.accounts) = Len(DefaultAccounts) + 1

-----------------------------------------------------------------------------
(* Further properties of validate_xml_file, under Spec. *)

\* C17: when the root tag is not the project tag, the structural check
\* records the root-tag error and nothing else (no version, required-child
\* or per-element finding), and the performance and security checks still
\* run.
C17_RootTagShortCircuit ==
  (FullRun /\ file.nodes[1].tag # Plain(RootTag)) =>
    /\ Len(verdict.summary.bas_schema.errors) = 1
    /\ Kinds(verdict.summary.bas_schema.errors) = {"root_tag_wrong"}
    /\ {"performance", "security"} \subseteq DOMAIN verdict.summary

\* the required attributes of element j that are absent or empty
Lacking(f, j) ==
  {a \in Range(RequiredAttributes[NameOf(f.nodes, j)]) : ~Truthy(Get(f.nodes[j], a))}

\* C18: for every scanned Feature, UIElement and Action that has an id, each
\* attribute of the tag's required set that is absent or empty is reported
\* by one error naming the element and the attribute, and is_valid is false.
C18_RequiredAttributes ==
  FullRun =>
    \A name \in ElementTags :
      \A j \in Scanned(file, name) :
        Truthy(Get(file.nodes[j], "id")) =>
          \A a \in Lacking(file, j) :
            /\ ~verdict.is_valid
            /\ \E k \in 1..Len(verdict.errors) :
                 /\ Len(verdict.errors[k]) >= 3
                 /\ verdict.errors[k][2] = Get(file.nodes[j], "id")
                 /\ verdict.errors[k][3] = a

\* the feature_id values of UIElement elements that are the id of no
\* Feature of the document
DanglingReferences(f) ==
  {Get(f.nodes[j], "feature_id") :
     j \in {k \in 2..Len(f.nodes) :
              /\ f.nodes[k].tag = Plain("UIElement")
              /\ Truthy(Get(f.nodes[k], "feature_id"))
              /\ \A i \in 2..Len(f.nodes) :
                   f.nodes[i].tag = Plain("Feature") =>
                     Get(f.nodes[i], "id") # Get(f.nodes[k], "feature_id")}}

\* the file with every feature_id attribute removed
WithoutReferences(f) ==
  [f EXCEPT !.nodes = [k \in 1..Len(@) |-> SetAttr(@[k], "feature_id", None)]]

\* C19: when a UIElement carries a feature_id that is the id of no Feature,
\* the verdict holds a warning for that reference in its warnings list, and
\* is_valid is what it is without the reference.
C19_DanglingReferenceWarned ==
  FullRun =>
    \A r \in DanglingReferences(file) :
      /\ <<"ui_dangling_feature", r>> \in Range(verdict.warnings)
      /\ verdict.is_valid = ValidateXmlFile(WithoutReferences(file)).is_valid

\* the elements with the tag `name`, wherever they sit in the document
Everywhere(f, name) == {j \in 2..Len(f.nodes) : f.nodes[j].tag = Plain(name)}

\* C20: ids are unique across all elements of a tag in the whole document:
\* two Feature (or UIElement, or Action) elements with the same id are
\* reported as duplicates wherever they sit, and is_valid is false.
C20_UniquenessScope ==
  FullRun =>
    \A name \in ElementTags, v \in Ids :
      Cardinality({j \in Everywhere(file, name) : Get(file.nodes[j], "id") = v}) >= 2 =>
        /\ <<DuplicateKind(name), v>> \in Range(verdict.errors)
        /\ ~verdict.is_valid

\* the text, trimmed, starts with { or with [
LooksLikeJson(t) == t \in {TextJson, TextBadJson, TextBadArr, TextDeep}

\* the elements of a tag whose text looks like JSON and does not parse
Unparsable(f, tag) ==
  {j \in 1..Len(f.nodes) : /\ f.nodes[j].tag = tag
                           /\ HasText(f.nodes[j])
                           /\ LooksLikeJson(f.nodes[j].text)
                           /\ JsonLoads(f.nodes[j].text) # "dict"}

\* C21: the integrity check gives one invalid-JSON warning, naming the tag,
\* for each element whose trimmed text starts with { or [ and does not parse
\* as JSON, and gives none for any other element.
C21_EmbeddedJsonScan ==
  FullRun =>
    \A j \in 1..Len(file.nodes) :
      CountOf(verdict.summary.data_integrity.warnings,
              <<"json_invalid", file.nodes[j].tag>>)
        = Cardinality(Unparsable(file, file.nodes[j].tag))

\* the warnings the file-level check collects for a file it accepts
FileWarnings(f) ==
  {w \in {<<"file_below_min", MinFileSizeMb, f.sizeMb>>, <<"suffix_not_xml">>} :
     \/ w[1] = "file_below_min" /\ f.sizeMb < MinFileSizeMb
     \/ w[1] = "suffix_not_xml" /\ ~f.suffixXml}

\* the file passes the file-level check and does not parse
ParseFails(f) == f.exists /\ f.sizeMb <= MaxFileSizeMb /\ ~f.wellFormed

\* C22: when the file passes the file-level check and fails to parse, the
\* verdict is invalid with the parse error as its only error, no check after
\* the syntax check has run, and the verdict carries, with the file-level
\* result, the warnings that check collected.
C22_ParseFailureShortCircuit ==
  (Validated /\ ParseFails(file)) =>
    /\ ~verdict.is_valid
    /\ verdict.errors = << <<"xml_parse_error">> >>
    /\ DOMAIN verdict.summary = {"file_basic", "xml_syntax"}
    /\ ~verdict.summary.xml_syntax.valid
    /\ verdict.summary.file_basic.valid
    /\ Range(verdict.summary.file_basic.warnings) = FileWarnings(file)

C22_Witness ==
  /\ Validated
  /\ ParseFails(file)
  /\ file.sizeMb < MinFileSizeMb
  /\ <<"file_below_min", MinFileSizeMb, file.sizeMb>>
       \in Range(verdict.summary.file_basic.warnings)

\* json.loads raises an exception that is not a JSONDecodeError inside the
\* integrity check
IntegrityRaises(f) ==
  \E j \in 1..Len(f.nodes) :
    /\ HasText(f.nodes[j])
    /\ StartsWithBrace(f.nodes[j].text)
    /\ JsonLoads(f.nodes[j].text) = "RecursionError"

\* what the integrity check reports about its own failure
SelfReports == {"integrity_check_failed"}

\* C23: when a check raises an exception internally, every other check
\* still runs, and the failing check adds a warning about itself, and no
\* error, to the verdict.
C23_CheckIsolation ==
  (Validated /\ ReachesSchema(file) /\ IntegrityRaises(file)) =>
    /\ DOMAIN verdict.summary = AllChecks
    /\ Kinds(verdict.errors) \cap SelfReports = {}
    /\ Kinds(verdict.warnings) \cap SelfReports # {}

\* the positions of a step in the steps of a pass
StepsNamed(pass, name) == {i \in 1..Len(pass.steps) : pass.steps[i].step = name}

\* the text a step is applied to
TextBefore(pass, i) == IF i = 1 THEN pass.input ELSE pass.steps[i - 1].text

\* C24: in every run of a corrector the escaping step is applied to a text
\* that holds no CDATA section (every section has been replaced by its
\* placeholder before), and the placeholders are restored only after the
\* escaping step.
C24_ShieldEscapeRestore ==
  \A k \in 1..Len(passes) :
    \A i \in StepsNamed(passes[k], "escape") :
      /\ CdataSections(TextBefore(passes[k], i)) = <<>>
      /\ \A j \in StepsNamed(passes[k], "shield") : j < i
      /\ \A j \in StepsNamed(passes[k], "restore") : j > i

\* C25: in every run of fix_common_errors the text after the restoring step
\* has the CDATA sections of the text the shielding step was applied to, in
\* the same order and with the same payloads, so that nothing outside CDATA
\* has become a CDATA section; this includes texts that hold a string of
\* the placeholder form.
C25_PlaceholderExactness ==
  \A k \in 1..Len(passes) :
    \A i \in StepsNamed(passes[k], "shield"), j \in StepsNamed(passes[k], "restore") :
      CdataSections(passes[k].steps[j].text)
        = CdataSections(TextBefore(passes[k], i))

\* C26: the tag-closure step of fix_xml_errors leaves unchanged a text in
\* which every element is closed by its own closing tag or is self-closed,
\* such as <x><y/></x>.
C26_ClosureOnlyOnMismatch ==
  \A k \in 1..Len(passes) :
    \A i \in StepsNamed(passes[k], "close_tags") :
      WellFormedText(TextBefore(passes[k], i)) =>
        passes[k].steps[i].text = TextBefore(passes[k], i)

\* <x a="1"/>
CollapsedPair ==
  <<"<", "x", " ", "a", "=", "\"", "1", "\"", "/", ">">>

\* C27: fix_xml_errors handed <x a="1"></x>, an element with no text and no
\* children, returns a text that holds it as <x a="1"/>.
C27_EmptyElementCollapsed ==
  \A k \in PassesOn(EmptyPair) :
    passes[k].by = "fix_xml_errors" => Contains(passes[k].output, CollapsedPair)

\* the depth of element j: 0 for the root, its parent's depth plus 1 otherwise
RECURSIVE DepthOf(_, _)
DepthOf(nodes, j) ==
  IF nodes[j].parent = 0 THEN 0 ELSE 1 + DepthOf(nodes, nodes[j].parent)

\* C28: for the tree of a parsed file, _calculate_xml_depth(root) is the
\* greatest depth of an element of the tree, some element has that depth,
\* and called on a leaf it returns the depth it was called with.
C28_DepthIsMaximum ==
  (FullRun /\ ReachesSchema(file)) =>
    LET depth == CalculateXmlDepth(file.nodes, 1, 0) IN
    /\ \A j \in 1..Len(file.nodes) : DepthOf(file.nodes, j) <= depth
    /\ \E j \in 1..Len(file.nodes) : DepthOf(file.nodes, j) = depth
    /\ \A j \in 1..Len(file.nodes) :
         Children(file.nodes, j) = <<>> =>
           CalculateXmlDepth(file.nodes, j, DepthOf(file.nodes, j))
             = DepthOf(file.nodes, j)

\* a tree whose first section is a leaf and whose deepest element is the
\* child of a later section
C28_Witness ==
  /\ FullRun
  /\ Children(file.nodes, Head(Children(file.nodes, 1))) = <<>>
  /\ CalculateXmlDepth(file.nodes, 1, 0) = 2

\* C29: whichever way validate_xml_file returns (the file missing or too
\* large, the text not parsing, all checks run, a check ended by an
\* exception), is_valid is true exactly when the errors list is empty.
C29_ValidIffNoErrors ==
  Validated => (verdict.is_valid <=> verdict.errors = <<>>)

\* a full run on a document with a UIElement of a type outside the
\* vocabulary that ends valid, with no error
C29_Witness ==
  /\ FullRun
  /\ verdict.is_valid
  /\ verdict.errors = <<>>
  /\ "ui_unknown_type" \in Kinds(verdict.summary.bas_schema.warnings)

-----------------------------------------------------------------------------
(* A property of XMLGenerator._generate_features, under SpecDatabase. *)

\* the runs of the log made on an open connection after an initialize call
GenerationRuns ==
  {k \in 1..Len(log) : /\ log[k].op = "generate_features"
                       /\ log[k].connected
                       /\ \E i \in 1..(k - 1) : log[i].op = "initialize"}

\* C30: every run of _generate_features on an initialized database
\* completes, the first and every later one: no insert_feature call of a
\* run is refused for the UNIQUE constraint on features.name.
C30_GenerationRepeatable ==
  \A k \in GenerationRuns : log[k].ok

====
